---- MODULE Spec2Model ----
(***************************************************************************)
(* The notes pipeline of synomare.github.io: the post generator script     *)
(* (create-post and rebuild), its ordering of posts, its template          *)
(* substitution, the embed rewrite and the thumbnail search.                *)
(*                                                                         *)
(* Text is a sequence of symbols.  A symbol is one character, or one of    *)
(* the five placeholder tokens, or one HTML entity, or one tag emitted by  *)
(* the Markdown renderer.  JavaScript values are records tagged with their *)
(* typeof.                                                                  *)
(***************************************************************************)
EXTENDS Integers, Sequences, FiniteSets, TLC

VARIABLES
    notes,      \* notes/*.html, the template among them: name -> file
    content,    \* notes/content/*.md: base name -> file
    postsJson,  \* notes/posts.json
    postsJs,    \* notes/posts.js
    pc,         \* where the running process is
    mode,       \* "rebuild" or "create"
    posts,      \* rebuildPosts' posts array
    idx,        \* index of the next post whose page is written
    out,        \* what the process printed: "", "success" or an error kind
    wrote,      \* the output artifacts written by the running process
    last,       \* the artifacts left by the latest successful rebuild
    clean,      \* no file was touched from outside since `last` was taken
    ops,        \* processes started and outside edits made so far
    argv,       \* the slug the running process was given, <<>> for --rebuild
    fn,         \* the function applied in a function-level specification
    arg,        \* its argument
    ret         \* its result

pipeVars == <<notes, content, postsJson, postsJs, pc, mode, posts, idx, out,
              wrote, last, clean, ops, argv>>
funVars == <<fn, arg, ret>>
vars == <<notes, content, postsJson, postsJs, pc, mode, posts, idx, out,
          wrote, last, clean, ops, argv, fn, arg, ret>>

----------------------------------------------------------------------------
(* Bounds *)

MaxPosts == 3
MaxOps == 4

----------------------------------------------------------------------------
(* Characters and strings *)

\* UTF-16 code units of the characters the model uses
Code(c) ==
    CASE c = "-" -> 45
      [] c = "0" -> 48
      [] c = "1" -> 49
      [] c = "2" -> 50
      [] c = "A" -> 65
      [] c = "a" -> 97
      [] c = "b" -> 98
      [] c = "e" -> 101
      [] c = "l" -> 108
      [] c = "m" -> 109
      [] c = "o" -> 111
      [] c = "p" -> 112
      [] c = "s" -> 115
      [] c = "t" -> 116
      [] OTHER -> 0

\* Collation rank used by String.prototype.localeCompare on the characters a
\* slug may hold: punctuation, then digits, then letters.
Collate(c) ==
    CASE c = "-" -> 1
      [] c = "0" -> 2
      [] c = "1" -> 3
      [] c = "2" -> 4
      [] c = "a" -> 5
      [] c = "b" -> 6
      [] c = "e" -> 7
      [] c = "l" -> 8
      [] c = "m" -> 9
      [] c = "o" -> 10
      [] c = "p" -> 11
      [] c = "s" -> 12
      [] c = "t" -> 13
      [] OTHER -> 0

RECURSIVE StrLess(_, _)
\* a < b on strings: lexicographic on code units, a proper prefix first
StrLess(a, b) ==
    IF b = <<>> THEN FALSE
    ELSE IF a = <<>> THEN TRUE
    ELSE IF Code(Head(a)) # Code(Head(b)) THEN Code(Head(a)) < Code(Head(b))
    ELSE StrLess(Tail(a), Tail(b))

RECURSIVE localeCompare(_, _)
\* a.localeCompare(b): negative, zero or positive
localeCompare(a, b) ==
    IF a = <<>> /\ b = <<>> THEN 0
    ELSE IF a = <<>> THEN -1
    ELSE IF b = <<>> THEN 1
    ELSE IF Collate(Head(a)) < Collate(Head(b)) THEN -1
    ELSE IF Collate(Head(a)) > Collate(Head(b)) THEN 1
    ELSE localeCompare(Tail(a), Tail(b))

----------------------------------------------------------------------------
(* JavaScript values *)

JStr(s) == [t |-> "string", s |-> s, n |-> 0, a |-> <<>>]
JNum(k) == [t |-> "number", s |-> <<>>, n |-> k, a |-> <<>>]
JArr(xs) == [t |-> "array", s |-> <<>>, n |-> 0, a |-> xs]
JUndef == [t |-> "undefined", s |-> <<>>, n |-> 0, a |-> <<>>]

\* typeof v === 'string' ? v : ''
StrOrEmpty(v) == IF v.t = "string" THEN v.s ELSE <<>>

----------------------------------------------------------------------------
(* sortPosts *)

\* the comparator handed to Array.prototype.sort
MutCompareAscending(a, b) ==
    LET aDate == StrOrEmpty(a.date)
        bDate == StrOrEmpty(b.date)
    IN  IF aDate = bDate
        THEN localeCompare(StrOrEmpty(a.slug), StrOrEmpty(b.slug))
        ELSE IF StrLess(aDate, bDate) THEN -1 ELSE 1

ComparePosts(a, b) ==
    LET aDate == StrOrEmpty(a.date)
        bDate == StrOrEmpty(b.date)
    IN  IF aDate = bDate
        THEN localeCompare(StrOrEmpty(a.slug), StrOrEmpty(b.slug))
        ELSE IF StrLess(aDate, bDate) THEN 1 ELSE -1

RECURSIVE InsertPost(_, _)
\* Array.prototype.sort is stable: p goes before the first element it
\* compares below
InsertPost(p, sorted) ==
    IF sorted = <<>> THEN <<p>>
    ELSE IF ComparePosts(p, Head(sorted)) < 0 THEN <<p>> \o sorted
    ELSE <<Head(sorted)>> \o InsertPost(p, Tail(sorted))

RECURSIVE sortPosts(_)
sortPosts(ps) ==
    IF ps = <<>> THEN <<>>
    ELSE InsertPost(ps[Len(ps)], sortPosts(SubSeq(ps, 1, Len(ps) - 1)))

----------------------------------------------------------------------------
(* Text with the origin of every symbol: "tpl" for the template's own text, *)
(* the field name for text that came in through a post's field.             *)

Sym(c, o) == [ch |-> c, o |-> o]
Tag(s, o) == [i \in 1..Len(s) |-> Sym(s[i], o)]
Strip(ts) == [i \in 1..Len(ts) |-> ts[i].ch]

Specials == {"&", "<", ">", "\"", "'"}

\* the replacement callback of escapeHtml
Entity(c) ==
    CASE c = "&" -> "&amp;"
      [] c = "<" -> "&lt;"
      [] c = ">" -> "&gt;"
      [] c = "\"" -> "&quot;"
      [] c = "'" -> "&#39;"
      [] OTHER -> c

\* str.replace(/[&<>"']/g, c => entity[c]) on a string
escapeHtml(ts) == [i \in 1..Len(ts) |-> Sym(Entity(ts[i].ch), ts[i].o)]

RECURSIVE ReplaceAll(_, _, _)
\* html.replace(new RegExp(escapeRegExp(key), 'g'), () => value): every
\* occurrence of key, left to right, the inserted text not scanned again
ReplaceAll(html, key, value) ==
    IF html = <<>> THEN <<>>
    ELSE IF Head(html).ch = key THEN value \o ReplaceAll(Tail(html), key, value)
    ELSE <<Head(html)>> \o ReplaceAll(Tail(html), key, value)

\* the replacements Map of writeHtml, in insertion order
MutReplacementsRawTitle(p) ==
    << <<"{{TITLE}}", Tag(p.title.s, "title")>>,
       <<"{{DATE}}", escapeHtml(Tag(p.date.s, "date"))>>,
       <<"{{SUMMARY}}", escapeHtml(Tag(p.summary.s, "summary"))>>,
       <<"{{SLUG}}", escapeHtml(Tag(p.slug.s, "slug"))>>,
       <<"{{CONTENT}}", Tag(p.contentHtml.s, "content")>> >>

Replacements(p) ==
    << <<"{{TITLE}}", escapeHtml(Tag(p.title.s, "title"))>>,
       <<"{{DATE}}", escapeHtml(Tag(p.date.s, "date"))>>,
       <<"{{SUMMARY}}", escapeHtml(Tag(p.summary.s, "summary"))>>,
       <<"{{SLUG}}", escapeHtml(Tag(p.slug.s, "slug"))>>,
       <<"{{CONTENT}}", Tag(p.contentHtml.s, "content")>> >>

RECURSIVE ApplyReplacements(_, _)
\* replacements.forEach((value, key) => html = html.replace(...))
ApplyReplacements(html, reps) ==
    IF reps = <<>> THEN html
    ELSE ApplyReplacements(ReplaceAll(html, Head(reps)[1], Head(reps)[2]), Tail(reps))

\* the page writeHtml builds from the template text
RenderPage(tpl, p) == ApplyReplacements(Tag(tpl, "tpl"), Replacements(p))

\* escapeHtml(x) throws a TypeError unless x is a string
CanRender(p) ==
    /\ p.title.t = "string"
    /\ p.date.t = "string"
    /\ p.summary.t = "string"
    /\ p.slug.t = "string"

----------------------------------------------------------------------------
(* The token tree of marked.lexer.  A token's children hang under `tokens`  *)
(* (paragraph, heading, blockquote, list_item, link) or, for a list, under  *)
(* `items`; `via` says which, and `kids` holds them.                        *)

JNull == [t |-> "null", s |-> <<>>, n |-> 0, a |-> <<>>]

\* JavaScript truthiness of the values the model holds
Truthy(v) ==
    CASE v.t = "string" -> v.s # <<>>
      [] v.t = "number" -> v.n # 0
      [] v.t = "array" -> TRUE
      [] OTHER -> FALSE

Tok(type, href, text, via, kids) ==
    [type |-> type, href |-> href, text |-> text, via |-> via, kids |-> kids]

Text == Tok("text", <<>>, <<"a">>, "none", <<>>)
Image(h) == Tok("image", h, <<>>, "none", <<>>)
Link(h) == Tok("link", h, <<>>, "tokens", <<Text>>)
Paragraph(ks) == Tok("paragraph", <<>>, <<>>, "tokens", ks)
Heading(ks) == Tok("heading", <<>>, <<>>, "tokens", ks)
Blockquote(ks) == Tok("blockquote", <<>>, <<>>, "tokens", ks)
ListItem(ks) == Tok("list_item", <<>>, <<>>, "tokens", ks)
List(its) == Tok("list", <<>>, <<>>, "items", its)
Html(txt) == Tok("html", <<>>, txt, "none", <<>>)

\* Symbols of a link address: ":" is any character outside [\w-], "yt/" is
\* the text youtu.be/, "yw=" is youtube.com/watch?v=, "tw" is twitter.com,
\* "x" is x.com, "/status/" is that text; the rest are single characters.
WordChars == {"a", "b", "0", "1", "2", "_"}
Digits == {"0", "1", "2"}
IdChars == WordChars \cup {"-"}

RECURSIVE Run(_, _)
\* the longest prefix of s made of characters of set
Run(s, set) ==
    IF s = <<>> \/ Head(s) \notin set THEN <<>>
    ELSE <<Head(s)>> \o Run(Tail(s), set)

RECURSIVE ytMatch(_)
\* href.match(/(?:youtube\.com\/watch\?v=|youtu\.be\/)([\w-]+)/): the
\* leftmost match and its group 1
ytMatch(href) ==
    IF href = <<>> THEN [ok |-> FALSE, id |-> <<>>]
    ELSE IF Head(href) \in {"yt/", "yw="} /\ Run(Tail(href), IdChars) # <<>>
         THEN [ok |-> TRUE, id |-> Run(Tail(href), IdChars)]
         ELSE ytMatch(Tail(href))

RECURSIVE twMatch(_)
\* href.match(/(?:twitter\.com|x\.com)\/(\w+)\/status\/(\d+)/) is not null
twMatch(href) ==
    IF href = <<>> THEN FALSE
    ELSE LET rest == Tail(href)
             user == IF rest # <<>> /\ Head(rest) = "/" THEN Run(Tail(rest), WordChars) ELSE <<>>
             after == IF user = <<>> THEN <<>> ELSE SubSeq(rest, Len(user) + 2, Len(rest))
         IN  IF /\ Head(href) \in {"tw", "x"}
                /\ user # <<>>
                /\ after # <<>>
                /\ Head(after) = "/status/"
                /\ Run(Tail(after), Digits) # <<>>
             THEN TRUE
             ELSE twMatch(rest)

YouTubeEmbed(id) == <<"<div class=video-container><iframe src=https://www.youtube.com/embed/">> \o id \o <<"></iframe></div>">>
TwitterEmbed(href) == <<"<blockquote class=twitter-tweet><a href=">> \o href \o <<"></a></blockquote>">>

\* the loop body of transformEmbeds, on one top-level token
MutEmbedAnyLink(token) ==
    IF token.type = "paragraph" /\ Len(token.kids) >= 1 /\ token.kids[1].type = "link"
    THEN LET href == token.kids[1].href
         IN  IF ytMatch(href).ok
             THEN [token EXCEPT !.type = "html", !.text = YouTubeEmbed(ytMatch(href).id)]
             ELSE IF twMatch(href)
             THEN [token EXCEPT !.type = "html", !.text = TwitterEmbed(href)]
             ELSE token
    ELSE token

EmbedToken(token) ==
    IF token.type = "paragraph" /\ Len(token.kids) = 1 /\ token.kids[1].type = "link"
    THEN LET href == token.kids[1].href
         IN  IF ytMatch(href).ok
             THEN [token EXCEPT !.type = "html", !.text = YouTubeEmbed(ytMatch(href).id)]
             ELSE IF twMatch(href)
             THEN [token EXCEPT !.type = "html", !.text = TwitterEmbed(href)]
             ELSE token
    ELSE token

\* transformEmbeds mutates the top-level tokens in place
transformEmbeds(tokens) == [i \in 1..Len(tokens) |-> EmbedToken(tokens[i])]

RECURSIVE findThumbnail(_)
findThumbnail(tokens) ==
    IF tokens = <<>> THEN JNull
    ELSE LET t == Head(tokens)
         IN  IF t.type = "image" THEN JStr(t.href)
             ELSE LET img == IF t.via = "tokens" THEN findThumbnail(t.kids) ELSE JNull
                  IN  IF Truthy(img) THEN img ELSE findThumbnail(Tail(tokens))

RECURSIVE Parser(_)
\* marked.parser: an html token is emitted as its text, any other token as
\* its tag around what its children render to
Parser(tokens) ==
    IF tokens = <<>> THEN <<>>
    ELSE LET t == Head(tokens)
             one == CASE t.type = "html" -> t.text
                      [] t.type = "text" -> t.text
                      [] t.type = "image" -> <<"<img src=">> \o t.href \o <<">">>
                      [] t.type = "link" -> <<"<a href=">> \o t.href \o <<">">> \o Parser(t.kids) \o <<"</a>">>
                      [] OTHER -> <<"<", t.type, ">">> \o Parser(t.kids) \o <<"</", t.type, ">">>
         IN  one \o Parser(Tail(tokens))

----------------------------------------------------------------------------
(* Files *)

\* the base name of templatePath, notes/post-template.html
TemplateSlug == <<"p", "o", "s", "t", "-", "t", "e", "m", "p", "l", "a", "t", "e">>

\* base names of the content files the model lets exist
ContentNames == {<<"a">>, <<"b">>, TemplateSlug}

NoFile == [st |-> "absent", text |-> <<>>]
FileOf(txt) == [st |-> "ok", text |-> txt]

NoContent == [st |-> "absent", parse |-> TRUE,
              data |-> [title |-> JUndef, date |-> JUndef, summary |-> JUndef, tags |-> JUndef],
              body |-> <<>>]
ContentOf(data, body) == [st |-> "ok", parse |-> TRUE, data |-> data, body |-> body]

TemplateText == <<"<", "{{TITLE}}", "{{DATE}}", "{{SUMMARY}}", "{{SLUG}}", "{{CONTENT}}", "{{TITLE}}">>

\* the body createPost writes: an HTML comment
PlaceholderBody == <<Html(<<"<!-- -->">>)>>

YtHref == <<":", "yt/", "a", "-", "1">>

\* what an author may leave in a content file
FileChoices ==
    { ContentOf([title |-> JStr(<<"<", "t">>), date |-> JStr(<<"2">>),
                 summary |-> JStr(<<"&">>), tags |-> JArr(<< <<"x">> >>)],
                <<Paragraph(<<Text, Image(<<"i">>)>>)>>),
      ContentOf([title |-> JUndef, date |-> JUndef, summary |-> JUndef, tags |-> JStr(<<"x">>)],
                <<Paragraph(<<Link(YtHref)>>)>>),
      ContentOf([title |-> JNum(1), date |-> JNum(2), summary |-> JUndef, tags |-> JUndef],
                <<>>),
      [ContentOf([title |-> JUndef, date |-> JUndef, summary |-> JUndef, tags |-> JUndef], <<>>)
         EXCEPT !.parse = FALSE] }

----------------------------------------------------------------------------
(* rebuildPosts, per content file *)

\* String(v) for the values a date may hold
StringOf(v) ==
    CASE v.t = "string" -> v.s
      [] v.t = "number" -> (CASE v.n = 0 -> <<"0">> [] v.n = 1 -> <<"1">> [] OTHER -> <<"2">>)
      [] OTHER -> <<>>

\* the record rebuildPosts pushes for one content file
BuildPost(name, f) ==
    LET thumb == findThumbnail(f.body)
    IN  [slug |-> JStr(name),
         title |-> IF Truthy(f.data.title) THEN f.data.title ELSE JStr(<<"No Title">>),
         date |-> IF Truthy(f.data.date) THEN JStr(StringOf(f.data.date)) ELSE JStr(<<>>),
         summary |-> IF Truthy(f.data.summary) THEN f.data.summary ELSE JStr(<<>>),
         tags |-> IF f.data.tags.t = "array" THEN f.data.tags ELSE JArr(<<>>),
         image |-> IF Truthy(thumb) THEN thumb ELSE JStr(<<>>),
         contentHtml |-> JStr(Parser(transformEmbeds(f.body)))]

\* posts.map(post => post): the whole record, contentHtml included
MutMetaKeepsAll(p) == p

\* ({ contentHtml, ...meta }) => meta
Meta(p) == [k \in DOMAIN p \ {"contentHtml"} |-> p[k]]

\* s.slice(0, k)
Slice(s, k) == SubSeq(s, 1, IF Len(s) < k THEN Len(s) ELSE k)

YearLen == 4
YearMonthLen == 7

\* the record writePostsJs emits for one post
PostForJs(post) ==
    [slug |-> post.slug,
     title |-> post.title,
     date |-> post.date,
     summary |-> IF Truthy(post.summary) THEN post.summary ELSE JStr(<<>>),
     tags |-> IF post.tags.t = "array" THEN post.tags ELSE JArr(<<>>),
     image |-> IF Truthy(post.image) THEN post.image ELSE JStr(<<>>),
     href |-> JStr(post.slug.s \o <<".html">>),
     year |-> JStr(Slice(IF Truthy(post.date) THEN post.date.s ELSE <<>>, YearLen)),
     yearMonth |-> JStr(Slice(IF Truthy(post.date) THEN post.date.s ELSE <<>>, YearMonthLen)),
     path |-> JStr(<<"notes/">> \o post.slug.s \o <<".html">>)]

\* the .md files readdir lists
MdFiles == {n \in ContentNames : content[n].st = "ok"}

\* the orders readdir may list them in
ReadOrders == {o \in [1..Cardinality(MdFiles) -> MdFiles] :
                 \A i, j \in 1..Cardinality(MdFiles) : i # j => o[i] # o[j]}

----------------------------------------------------------------------------
(* The process: main, createPost, rebuildPosts, writeJson, writePostsJs,    *)
(* writeHtml.  One action per awaited stage.                                 *)

NoWrites == [json |-> FALSE, js |-> FALSE, pages |-> {}]
NoLast == [valid |-> FALSE, json |-> NoFile, js |-> NoFile,
           notes |-> [n \in ContentNames |-> NoFile], slugs |-> {}]

FunIdle == fn = "none" /\ arg = <<>> /\ ret = <<>>

Init ==
    /\ notes \in {[[n \in ContentNames |-> NoFile] EXCEPT ![TemplateSlug] = t] :
                    t \in {FileOf(TemplateText), NoFile,
                           [st |-> "unreadable", text |-> TemplateText]}}
    /\ content = [n \in ContentNames |-> NoContent]
    /\ postsJson = NoFile
    /\ postsJs = NoFile
    /\ pc = "idle"
    /\ mode = "none"
    /\ posts = <<>>
    /\ idx = 0
    /\ out = ""
    /\ wrote = NoWrites
    /\ last = NoLast
    /\ clean = FALSE
    /\ ops = 0
    /\ argv = <<>>
    /\ FunIdle

\* ensureTemplate: fs.access(templatePath) succeeds when the file exists
ensureTemplate == notes[TemplateSlug].st # "absent"

\* /^[a-z0-9-]+$/.test(slug)
validateSlug(slug) == slug # <<>> /\ \A i \in 1..Len(slug) : Collate(slug[i]) > 0

Fail(kind) ==
    /\ pc' = "failed"
    /\ out' = kind

\* an author edits, adds or replaces a content file between two runs
EditContent(name, f) ==
    /\ UNCHANGED argv
    /\ pc = "idle"
    /\ ops < MaxOps
    /\ content[name] # f
    /\ content' = [content EXCEPT ![name] = f]
    /\ ops' = ops + 1
    /\ clean' = FALSE
    /\ UNCHANGED <<notes, postsJson, postsJs, pc, mode, posts, idx, out, wrote, last>>
    /\ UNCHANGED funVars

\* main with --rebuild, up to the call of rebuildPosts
StartRebuild ==
    /\ argv' = <<>>
    /\ pc = "idle"
    /\ ops < MaxOps
    /\ ops' = ops + 1
    /\ mode' = "rebuild"
    /\ IF ensureTemplate
       THEN pc' = "read" /\ out' = ""
       ELSE Fail("template-missing")
    /\ UNCHANGED <<notes, content, postsJson, postsJs, posts, idx, wrote, last, clean>>
    /\ UNCHANGED funVars

\* the file createPost writes: matter.stringify of the placeholder body
CreatedFile(title, date) ==
    ContentOf([title |-> JStr(title), date |-> JStr(date),
               summary |-> JStr(<<"s">>), tags |-> JArr(<<>>)], PlaceholderBody)

\* the existence check of createPost: fs.access(targetPath) succeeded
MutNoExistenceCheck(slug) == FALSE

AlreadyExists(slug) == slug \in ContentNames /\ content[slug].st = "ok"

\* main with <slug> <title>, through createPost up to its call of rebuildPosts
StartCreate(slug, title, date) ==
    /\ argv' = slug
    /\ pc = "idle"
    /\ ops < MaxOps
    /\ ops' = ops + 1
    /\ mode' = "create"
    /\ UNCHANGED <<notes, postsJson, postsJs, posts, idx, wrote, last>>
    /\ UNCHANGED funVars
    /\ IF ~ensureTemplate
       THEN Fail("template-missing") /\ UNCHANGED <<content, clean>>
       ELSE IF ~validateSlug(slug)
       THEN Fail("bad-slug") /\ UNCHANGED <<content, clean>>
       ELSE IF AlreadyExists(slug)
       THEN Fail("exists") /\ UNCHANGED <<content, clean>>
       ELSE \/ /\ content' = [content EXCEPT ![slug] = CreatedFile(title, date)]
               /\ clean' = FALSE
               /\ pc' = "read"
               /\ out' = ""
            \/ Fail("write-error") /\ UNCHANGED <<content, clean>>

\* matter(content) throws on one of the files
MutNeverThrows == FALSE

ParseFails == \E n \in MdFiles : ~content[n].parse

\* rebuildPosts: readdir, the loop over the .md files, sortPosts
ReadContent ==
    /\ UNCHANGED argv
    /\ pc = "read"
    /\ IF ParseFails
       THEN Fail("parse-error") /\ UNCHANGED posts
       ELSE /\ \E o \in ReadOrders :
                 posts' = sortPosts([i \in 1..Len(o) |-> BuildPost(o[i], content[o[i]])])
            /\ pc' = "json"
            /\ out' = out
    /\ UNCHANGED <<notes, content, postsJson, postsJs, mode, idx, wrote, last, clean, ops>>
    /\ UNCHANGED funVars

\* writeJson(metaPosts)
WriteJson ==
    /\ UNCHANGED argv
    /\ pc = "json"
    /\ \/ /\ postsJson' = FileOf([i \in 1..Len(posts) |-> Meta(posts[i])])
          /\ wrote' = [wrote EXCEPT !.json = TRUE]
          /\ pc' = "js"
          /\ out' = out
       \/ Fail("write-error") /\ UNCHANGED <<postsJson, wrote>>
    /\ UNCHANGED <<notes, content, postsJs, mode, posts, idx, last, clean, ops>>
    /\ UNCHANGED funVars

\* writePostsJs(metaPosts)
WritePostsJs ==
    /\ UNCHANGED argv
    /\ pc = "js"
    /\ \/ /\ postsJs' = FileOf([i \in 1..Len(posts) |-> PostForJs(Meta(posts[i]))])
          /\ wrote' = [wrote EXCEPT !.js = TRUE]
          /\ pc' = "html"
          /\ idx' = 1
          /\ out' = out
       \/ Fail("write-error") /\ UNCHANGED <<postsJs, wrote, idx>>
    /\ UNCHANGED <<notes, content, postsJson, mode, posts, last, clean, ops>>
    /\ UNCHANGED funVars

\* writeHtml(post) for the next post of the loop
WriteHtml ==
    /\ UNCHANGED argv
    /\ pc = "html"
    /\ idx <= Len(posts)
    /\ LET post == posts[idx]
           tpl == notes[TemplateSlug]
       IN  IF tpl.st # "ok"
           THEN Fail("read-error") /\ UNCHANGED <<notes, wrote, idx>>
           ELSE IF ~CanRender(post)
           THEN Fail("type-error") /\ UNCHANGED <<notes, wrote, idx>>
           ELSE \/ /\ notes' = [notes EXCEPT ![post.slug.s] = FileOf(Strip(RenderPage(tpl.text, post)))]
                   /\ wrote' = [wrote EXCEPT !.pages = @ \cup {post.slug.s}]
                   /\ idx' = idx + 1
                   /\ UNCHANGED <<pc, out>>
                \/ Fail("write-error") /\ UNCHANGED <<notes, wrote, idx>>
    /\ UNCHANGED <<content, postsJson, postsJs, mode, posts, last, clean, ops>>
    /\ UNCHANGED funVars

\* the summary rebuildPosts prints at its end
Finish ==
    /\ UNCHANGED argv
    /\ pc = "html"
    /\ idx > Len(posts)
    /\ pc' = "done"
    /\ out' = "success"
    /\ UNCHANGED <<notes, content, postsJson, postsJs, mode, posts, idx, wrote, last, clean, ops>>
    /\ UNCHANGED funVars

\* the process ends: main returns, or process.exit(1) after logError
Exit ==
    /\ argv' = <<>>
    /\ pc \in {"done", "failed"}
    /\ pc' = "idle"
    /\ mode' = "none"
    /\ posts' = <<>>
    /\ idx' = 0
    /\ out' = ""
    /\ wrote' = NoWrites
    /\ IF pc = "done"
       THEN /\ last' = [valid |-> TRUE, json |-> postsJson, js |-> postsJs, notes |-> notes,
                        slugs |-> {posts[i].slug.s : i \in 1..Len(posts)}]
            /\ clean' = TRUE
       ELSE UNCHANGED <<last, clean>>
    /\ UNCHANGED <<notes, content, postsJson, postsJs, ops>>
    /\ UNCHANGED funVars

CreateSlugs == {<<"a">>, TemplateSlug, <<"A">>}

Next ==
    \/ \E n \in ContentNames, f \in FileChoices : EditContent(n, f)
    \/ StartRebuild
    \/ \E s \in CreateSlugs : StartCreate(s, <<"'", "t">>, <<"1">>)
    \/ ReadContent
    \/ WriteJson
    \/ WritePostsJs
    \/ WriteHtml
    \/ Finish
    \/ Exit

Spec == Init /\ [][Next]_vars

----------------------------------------------------------------------------
(* Function-level specifications: the argument is drawn in the initial      *)
(* state and one action applies the function to it.                          *)

PipeIdle ==
    /\ notes = [n \in ContentNames |-> NoFile]
    /\ content = [n \in ContentNames |-> NoContent]
    /\ postsJson = NoFile
    /\ postsJs = NoFile
    /\ pc = "idle"
    /\ mode = "none"
    /\ posts = <<>>
    /\ idx = 0
    /\ out = ""
    /\ wrote = NoWrites
    /\ last = NoLast
    /\ clean = FALSE
    /\ ops = 0
    /\ argv = <<>>

\* sequences over S of length at most k
RECURSIVE SeqsUpTo(_, _)
SeqsUpTo(S, k) ==
    IF k = 0 THEN {<<>>}
    ELSE LET shorter == SeqsUpTo(S, k - 1)
         IN  shorter \cup {Append(s, x) : s \in shorter, x \in S}

(* sortPosts *)

SortDates == {JStr(<<>>), JStr(<<"2">>), JStr(<<"1", "0">>), JUndef}
SortSlugs == {JStr(<<"a">>), JStr(<<"a", "-">>), JStr(<<"1">>), JNum(1)}
SortPosts == {[slug |-> sl, date |-> d] : sl \in SortSlugs, d \in SortDates}

InitSort ==
    /\ PipeIdle
    /\ fn = "sortPosts"
    /\ arg \in SeqsUpTo(SortPosts, MaxPosts)
    /\ ret = <<>>

ApplySort ==
    /\ fn = "sortPosts"
    /\ fn' = "sorted"
    /\ ret' = sortPosts(arg)
    /\ UNCHANGED arg
    /\ UNCHANGED pipeVars

SpecSort == InitSort /\ [][ApplySort]_vars

(* findThumbnail and transformEmbeds, as rebuildPosts calls them *)

MaxBlocks == 2

ImageHrefs == {<<>>, <<"i">>, <<"j">>}
LinkHrefs ==
    { YtHref,
      <<":", "yw=", "a", ":", "b">>,
      <<":", "yt/">>,
      <<":", "tw", "/", "a", "/status/", "1">>,
      <<":", "x", "/", "a", "1", "/status/", "1", "2">>,
      <<":", "tw", "/", "a", "/status/", "a">>,
      <<":", "tw", "/", "a", "/status/", "1", ":", "yt/", "b">>,
      <<":", "a">> }

ThumbInline == {Text} \cup {Image(h) : h \in ImageHrefs}
ThumbParas == {Paragraph(<<x>>) : x \in ThumbInline}
                \cup {Paragraph(<<x, Image(<<"j">>)>>) : x \in ThumbInline}
NestParas == {Paragraph(<<x>>) : x \in {Text, Image(<<>>), Image(<<"i">>)}}
Lists1 == {List(<<ListItem(<<q>>)>>) : q \in NestParas}
Lists2 == {List(<<ListItem(<<l>>)>>) : l \in Lists1}
Lists3 == {List(<<ListItem(<<l>>)>>) : l \in Lists2}
Quotes == {Blockquote(<<q>>) : q \in NestParas}
ThumbBlocks == ThumbParas \cup Lists1 \cup Lists2 \cup Lists3 \cup Quotes

EmbedLinks == {Link(h) : h \in LinkHrefs}
EmbedBlocks ==
    {Paragraph(<<x>>) : x \in EmbedLinks \cup {Text, Image(<<"i">>)}}
      \cup {Paragraph(<<x, Text>>) : x \in EmbedLinks}
      \cup {Paragraph(<<Text, Link(YtHref)>>)}
      \cup {Heading(<<Link(YtHref)>>), Blockquote(<<Paragraph(<<Link(YtHref)>>)>>),
            Html(<<"<hr>">>)}

InitTokens ==
    /\ PipeIdle
    /\ fn = "lexed"
    /\ arg \in SeqsUpTo(ThumbBlocks, MaxBlocks) \cup SeqsUpTo(EmbedBlocks, MaxBlocks)
    /\ ret = <<>>

\* rebuildPosts: findThumbnail(tokens) || '', then transformEmbeds(tokens)
ApplyTokens ==
    /\ fn = "lexed"
    /\ fn' = "embedded"
    /\ LET thumb == findThumbnail(arg)
       IN  ret' = << [thumb |-> thumb,
                      image |-> IF Truthy(thumb) THEN thumb ELSE JStr(<<>>),
                      tokens |-> transformEmbeds(arg)] >>
    /\ UNCHANGED arg
    /\ UNCHANGED pipeVars

SpecTokens == InitTokens /\ [][ApplyTokens]_vars

(* writeHtml's substitution *)

MaxText == 2

RenderTemplates ==
    { TemplateText,
      <<"{{CONTENT}}", "&", "{{TITLE}}">>,
      <<"'", "{{SLUG}}", "{{SUMMARY}}", "{{DATE}}">> }
TitleSymbols == {"<", "&", "'", "t", "{{CONTENT}}", "{{DATE}}"}
RenderDates == {<<>>, <<"2">>, <<">">>}
RenderSummaries == {<<>>, <<"\"">>, <<"{{SLUG}}">>}
RenderSlugs == {<<"a">>, <<"&">>}
RenderContents == {<<>>, <<"<", "b", ">">>, <<"&", "{{TITLE}}">>}

InitRender ==
    /\ PipeIdle
    /\ fn = "writeHtml"
    /\ arg \in {<< [tpl |-> tp,
                    post |-> [slug |-> JStr(sl), title |-> JStr(ti), date |-> JStr(d),
                              summary |-> JStr(su), contentHtml |-> JStr(c)]] >> :
                  tp \in RenderTemplates, sl \in RenderSlugs, ti \in SeqsUpTo(TitleSymbols, MaxText),
                  d \in RenderDates, su \in RenderSummaries, c \in RenderContents}
    /\ ret = <<>>

ApplyRender ==
    /\ fn = "writeHtml"
    /\ fn' = "written"
    /\ ret' = RenderPage(arg[1].tpl, arg[1].post)
    /\ UNCHANGED arg
    /\ UNCHANGED pipeVars

SpecRender == InitRender /\ [][ApplyRender]_vars

----------------------------------------------------------------------------
(* Claims about the functions *)

DateKey(p) == StrOrEmpty(p.date)
SlugKey(p) == StrOrEmpty(p.slug)
Count(seq, x) == Cardinality({i \in DOMAIN seq : seq[i] = x})

\* C1: sortPosts returns a permutation of its input in which a post with the
\* greater date string (a non-string date counting as '') precedes, posts of
\* equal date stand in ascending code-unit order of their slugs, and the
\* posts without a date come after every dated post.
C1_SortedByDateThenSlug ==
    fn = "sorted" =>
        /\ Len(ret) = Len(arg)
        /\ \A i \in DOMAIN arg : Count(ret, arg[i]) = Count(arg, arg[i])
        /\ \A i, j \in DOMAIN ret :
              /\ StrLess(DateKey(ret[j]), DateKey(ret[i])) => i < j
              /\ (DateKey(ret[i]) = DateKey(ret[j])
                    /\ StrLess(SlugKey(ret[i]), SlugKey(ret[j]))) => i < j
              /\ (DateKey(ret[i]) = <<>> /\ DateKey(ret[j]) # <<>>) => j < i

C1_Witness ==
    /\ fn = "sorted"
    /\ ret # arg
    /\ \E i, j, k \in DOMAIN ret :
          /\ i < j /\ j < k
          /\ DateKey(ret[i]) # <<>>
          /\ DateKey(ret[j]) = <<>> /\ DateKey(ret[k]) = <<>>
          /\ SlugKey(ret[j]) # SlugKey(ret[k])
          /\ ret[j].date # ret[k].date

\* the YouTube pattern occurs in h
HasYt(h) == \E i \in 1..(Len(h) - 1) : h[i] \in {"yt/", "yw="} /\ h[i + 1] \in IdChars

\* the video id of the leftmost occurrence
YtId(h) ==
    LET i == CHOOSE m \in 1..(Len(h) - 1) :
                 /\ h[m] \in {"yt/", "yw="} /\ h[m + 1] \in IdChars
                 /\ \A n \in 1..(m - 1) : ~(h[n] \in {"yt/", "yw="} /\ h[n + 1] \in IdChars)
        j == CHOOSE m \in (i + 1)..Len(h) :
                 /\ \A n \in (i + 1)..m : h[n] \in IdChars
                 /\ (m = Len(h) \/ h[m + 1] \notin IdChars)
    IN  SubSeq(h, i + 1, j)

\* the Twitter/X status pattern occurs in h
HasTw(h) ==
    \E i, j \in 1..Len(h) :
        /\ i + 2 <= j
        /\ j + 2 <= Len(h)
        /\ h[i] \in {"tw", "x"}
        /\ h[i + 1] = "/"
        /\ \A n \in (i + 2)..j : h[n] \in WordChars
        /\ h[j + 1] = "/status/"
        /\ h[j + 2] \in Digits

LoneLink(t) == t.type = "paragraph" /\ Len(t.kids) = 1 /\ t.kids[1].type = "link"

\* C9: transformEmbeds rewrites a top-level token exactly when it is a
\* paragraph whose only child is a link matching the YouTube or the Twitter/X
\* pattern; a YouTube match yields the iframe for embed/<id>, a Twitter match
\* alone the tweet blockquote; every other token is left as it was.
C9_EmbedOnlyLoneLinks ==
    fn = "embedded" =>
        /\ Len(ret[1].tokens) = Len(arg)
        /\ \A i \in DOMAIN arg :
              LET t == arg[i]
                  r == ret[1].tokens[i]
                  h == t.kids[1].href
              IN  /\ (r # t) <=> (LoneLink(t) /\ (HasYt(h) \/ HasTw(h)))
                  /\ (LoneLink(t) /\ HasYt(h)) =>
                        r = [t EXCEPT !.type = "html", !.text = YouTubeEmbed(YtId(h))]
                  /\ (LoneLink(t) /\ ~HasYt(h) /\ HasTw(h)) =>
                        r = [t EXCEPT !.type = "html", !.text = TwitterEmbed(h)]

C9_Witness ==
    /\ fn = "embedded"
    /\ Len(arg) = 2
    /\ LoneLink(arg[1]) /\ HasYt(arg[1].kids[1].href) /\ HasTw(arg[1].kids[1].href)
    /\ ret[1].tokens[1].type = "html"
    /\ arg[2].type = "paragraph" /\ Len(arg[2].kids) = 2
    /\ arg[2].kids[1].type = "link" /\ HasYt(arg[2].kids[1].href)
    /\ ret[1].tokens[2] = arg[2]

RECURSIVE FirstImage(_)
\* the first image token in depth-first pre-order, whatever relation the
\* children hang under
FirstImage(tokens) ==
    IF tokens = <<>> THEN [found |-> FALSE, href |-> <<>>]
    ELSE LET t == Head(tokens)
             below == FirstImage(t.kids)
         IN  IF t.type = "image" THEN [found |-> TRUE, href |-> t.href]
             ELSE IF below.found THEN below
             ELSE FirstImage(Tail(tokens))

\* C10: findThumbnail returns the address of the first image token in
\* document order at any depth and nothing when the tree holds no image, and
\* the post's image field is that address, or empty when there is no image.
\* (Nothing returned and an empty address returned are not told apart.)
C10_FirstImageFound ==
    fn = "embedded" =>
        LET fi == FirstImage(arg)
        IN  /\ ret[1].image = JStr(fi.href)
            /\ ret[1].thumb # JNull => ret[1].thumb = JStr(fi.href)
            /\ ~fi.found => ret[1].thumb = JNull

Origins(page, o) == SelectSeq(page, LAMBDA x : x.o = o)
Placeholders == {"{{TITLE}}", "{{DATE}}", "{{SUMMARY}}", "{{SLUG}}", "{{CONTENT}}"}
IsChar(c) == c \notin Placeholders

RECURSIVE IsCopies(_, _)
\* s is c written some number of times
IsCopies(s, c) ==
    \/ s = <<>>
    \/ /\ c # <<>>
       /\ Len(s) >= Len(c)
       /\ SubSeq(s, 1, Len(c)) = c
       /\ IsCopies(SubSeq(s, Len(c) + 1, Len(s)), c)

\* C3: in the page writeHtml builds, no symbol that came in through the
\* title, date, summary or slug is a raw & < > " or ', and the symbols that
\* came in through contentHtml are contentHtml itself, symbol for symbol,
\* once per {{CONTENT}} replaced.
C3_ValuesEscapedContentRaw ==
    fn = "written" =>
        /\ \A i \in DOMAIN ret :
              ret[i].o \in {"title", "date", "summary", "slug"} => ret[i].ch \notin Specials
        /\ IsCopies(Strip(Origins(ret, "content")), arg[1].post.contentHtml.s)
        /\ (\E i \in DOMAIN arg[1].tpl : arg[1].tpl[i] = "{{CONTENT}}")
              => Len(Origins(ret, "content")) >= Len(arg[1].post.contentHtml.s)
        /\ (\E i \in DOMAIN arg[1].tpl : arg[1].tpl[i] = "{{TITLE}}")
              => Len(Origins(ret, "title")) >= Len(SelectSeq(arg[1].post.title.s, IsChar))

C3_Witness ==
    /\ fn = "written"
    /\ \E i \in DOMAIN arg[1].post.title.s : arg[1].post.title.s[i] = "<"
    /\ \E i \in DOMAIN ret : ret[i] = Sym("&lt;", "title")
    /\ \E i \in DOMAIN ret : ret[i] = Sym("<", "content")
    /\ \E i \in DOMAIN ret : ret[i] = Sym("&#39;", "title")

\* value of the replacement whose key is c, or <<c>> when c is no key
ValueFor(c, reps) ==
    IF \E i \in DOMAIN reps : reps[i][1] = c
    THEN reps[CHOOSE i \in DOMAIN reps : reps[i][1] = c][2]
    ELSE <<c>>

RECURSIVE Simultaneous(_, _)
\* all occurrences of all keys in the template replaced at once
Simultaneous(tpl, reps) ==
    IF tpl = <<>> THEN <<>>
    ELSE ValueFor(Head(tpl), reps) \o Simultaneous(Tail(tpl), reps)

\* C12: the page writeHtml builds, making its five replacements one after
\* the other, is the template with every occurrence of the five placeholders
\* replaced simultaneously: text inserted for one placeholder is never
\* rewritten by the replacement of another.
C12_SubstitutionOrderIndependent ==
    fn = "written" =>
        LET reps == [i \in 1..5 |-> <<Replacements(arg[1].post)[i][1],
                                       Strip(Replacements(arg[1].post)[i][2])>>]
        IN  Strip(ret) = Simultaneous(arg[1].tpl, reps)

----------------------------------------------------------------------------
(* Claims about the process *)

ErrorKinds == {"template-missing", "bad-slug", "exists", "write-error", "read-error",
               "parse-error", "type-error"}

\* C2: a successful rebuild that follows a successful rebuild, with no file
\* touched from outside in between (aborted runs may lie in between), leaves
\* posts.json, posts.js and every post's page as the earlier rebuild left them.
C2_RebuildIdempotent ==
    (pc = "done" /\ last.valid /\ clean) =>
        /\ postsJson = last.json
        /\ postsJs = last.js
        /\ \A i \in DOMAIN posts : notes[posts[i].slug.s] = last.notes[posts[i].slug.s]

\* C4: no step of a create-post or rebuild run changes the template file.
C4_TemplateNeverWritten == [][notes'[TemplateSlug] = notes[TemplateSlug]]_vars

\* C5: a run in which the template cannot be read writes no output artifact
\* and does not end in success.
C5_NoOutputWithoutTemplate ==
    (pc # "idle" /\ notes[TemplateSlug].st # "ok") => (wrote = NoWrites /\ pc # "done")

\* C6: success is printed only with posts.json, posts.js and the page of
\* every post written in this run; a failed run has printed an error; a
\* content file that does not parse aborts the run before any artifact is
\* written and is never skipped; the pages are written one post after the
\* other, after posts.json and posts.js.
C6_AllOrError ==
    /\ pc = "done" =>
          /\ out = "success"
          /\ wrote.json /\ wrote.js
          /\ \A i \in DOMAIN posts : posts[i].slug.s \in wrote.pages
    /\ out = "success" => pc = "done"
    /\ pc = "failed" => out \in ErrorKinds
    /\ (pc = "failed" /\ out = "parse-error") => wrote = NoWrites
    /\ pc \in {"json", "js", "html", "done"} =>
          /\ \A n \in MdFiles : content[n].parse
          /\ {posts[i].slug.s : i \in DOMAIN posts} = MdFiles
          /\ Len(posts) = Cardinality(MdFiles)
    /\ pc = "html" =>
          /\ idx \in 1..(Len(posts) + 1)
          /\ wrote.json /\ wrote.js
          /\ wrote.pages = {posts[i].slug.s : i \in 1..(idx - 1)}
    /\ pc \in {"read", "json"} => wrote = NoWrites

C6_Witness ==
    /\ pc = "done"
    /\ mode = "rebuild"
    /\ Len(posts) >= 2
    /\ out = "success"

\* C7: no run fails on the shape of a front-matter value.
C7_MalformedNeverFatal == pc = "failed" => out # "type-error"

\* C8: a create-post run given a slug whose content file exists ends at once
\* in a reported error, with the content files, posts.json, posts.js and
\* every page left as they were.
C8_DuplicateRejected ==
    [][(pc = "idle" /\ mode' = "create" /\ argv' \in MdFiles) =>
          /\ pc' = "failed"
          /\ out' \in ErrorKinds
          /\ UNCHANGED <<content, notes, postsJson, postsJs>>]_vars

C8_Witness ==
    /\ pc = "failed"
    /\ mode = "create"
    /\ out = "exists"
    /\ argv # TemplateSlug
    /\ content[argv].st = "ok"
    /\ notes[argv].st = "ok"
    /\ postsJson.st = "ok"

RECURSIVE Contains(_, _)
\* c occurs in s as a contiguous piece
Contains(s, c) ==
    \/ Len(c) <= Len(s) /\ SubSeq(s, 1, Len(c)) = c
    \/ s # <<>> /\ Contains(Tail(s), c)

MetaFields == {"slug", "title", "date", "summary", "tags", "image"}
JsFields == MetaFields \cup {"href", "year", "yearMonth", "path"}

\* C11: at every moment of every sequence of create and rebuild runs, no
\* record of posts.json or of posts.js has a contentHtml field: a record of
\* posts.json has the six metadata fields, a record of posts.js those and
\* href, year, yearMonth and path, and nothing else.
C11_NoContentHtmlInMetadata ==
    /\ \A i \in DOMAIN postsJson.text :
          "contentHtml" \notin DOMAIN postsJson.text[i] /\ DOMAIN postsJson.text[i] = MetaFields
    /\ \A i \in DOMAIN postsJs.text :
          "contentHtml" \notin DOMAIN postsJs.text[i] /\ DOMAIN postsJs.text[i] = JsFields

C11_Witness ==
    /\ pc = "done"
    /\ \E i \in DOMAIN posts :
          /\ posts[i].contentHtml.s # <<>>
          /\ posts[i].slug.s # TemplateSlug
          /\ Contains(notes[posts[i].slug.s].text, posts[i].contentHtml.s)
          /\ i \in DOMAIN postsJson.text /\ postsJson.text[i].slug = posts[i].slug
          /\ i \in DOMAIN postsJs.text /\ postsJs.text[i].slug = posts[i].slug

====
